---- MODULE Spec2Model ----
\* label_studio_converter/utils.py: create_tokens_and_tags (BIO tagging of
\* character-offset spans over tokenizer output) and parse_config (label
\* config tree -> schema of output tags).
EXTENDS Integers, Sequences, FiniteSets, TLC

\* ---------------------------------------------------------------- bounds
TextLen == 3
MaxSpans == 2
MaxNodes == 4

\* ---------------------------------------------------------------- state
VARIABLES
    \* create_tokens_and_tags
    text,                 \* argument: the text, a sequence of characters
    arg_spans,            \* argument: the span list as passed by the caller
    token_index_tuples,   \* span_tokenize(text): <<start, end>> pairs, end exclusive
    tokens_and_idx,       \* [(text[start:end], start)]
    pc,                   \* "call" | "loop" | "done"
    spans,                \* the sorted list, consumed from the front
    span,                 \* the current span
    span_start, span_end, \* span['start'], span['end'] - 1
    prefix,               \* "B-" | "I-"
    n,                    \* number of loop iterations completed
    token_start, token_end, \* locals of the last iteration
    tokens, tags,         \* the two result lists
    cur                   \* history: per token, position in the sorted list of
                          \* the span that was current when the token was tagged

tagger_vars == <<text, arg_spans, token_index_tuples, tokens_and_idx, pc, spans,
                 span, span_start, span_end, prefix, n, token_start, token_end,
                 tokens, tags, cur>>

VARIABLES
    \* parse_config
    doc,                  \* nodes yielded by xml_tree.iter() so far, document order
    cpc,                  \* "call" | "iter" | "done"
    inputs,               \* dict name -> {type, value}
    outputs,              \* dict name -> tag_info
    labels,               \* defaultdict(dict): name -> (label value -> attrs)
    schema,               \* the returned dict
    owner                 \* history: per node, what _get_parent_output_tag_name
                          \* returned when the node was visited

config_vars == <<doc, cpc, inputs, outputs, labels, schema, owner>>

vars == <<tagger_vars, config_vars>>

\* ---------------------------------------------------------------- inputs
\* The text: characters at offsets 0..TextLen-1 (text[i] of the code is
\* text[i+1] here).
Texts == {[i \in 1..TextLen |-> IF i % 2 = 1 THEN "a" ELSE "b"]}

\* Output of TreebankWordTokenizer().span_tokenize(text): non-empty,
\* non-overlapping <<start, end>> pairs in ascending order, inside the text.
RECURSIVE TokenSpansFrom(_)
TokenSpansFrom(from) ==
    {<< >>} \cup
    UNION {UNION {{<<(<<s, e>>)>> \o rest : rest \in TokenSpansFrom(e)} :
                    e \in (s + 1)..TextLen} :
             s \in from..(TextLen - 1)}

TokenSpanLists == TokenSpansFrom(0)

Labels == {<< >>, <<"A">>, <<"B", "A">>}

\* Spans with both boundaries set, end exclusive: every [start, end) inside
\* the text with every label list, one without a 'labels' key, and two whose
\* end is not behind their start.
BoundedSpans ==
    {[start |-> se[1], end |-> se[2], labels |-> ls] :
        se \in {x \in (0..(TextLen - 1)) \X (1..TextLen) : x[1] < x[2]},
        ls \in Labels}
    \cup {[start |-> 0, end |-> TextLen],
          [start |-> 1, end |-> 1, labels |-> <<"A">>],
          [start |-> 2, end |-> 1, labels |-> <<"A">>]}

\* Spans with a boundary missing (span.get(...) is None).
UnboundedSpans ==
    {[end |-> 1, labels |-> <<"A">>], [start |-> 0, labels |-> <<"A">>],
     [labels |-> <<"B", "A">>]}

SpanRecords == BoundedSpans \cup UnboundedSpans

SpanLists == UNION {[1..m -> SpanRecords] : m \in 0..MaxSpans}

\* ---------------------------------------------------------------- helpers
\* span.get(key) is not None
HasKey(d, key) == key \in DOMAIN d

\* `not span`: an empty dict is falsy
IsFalsyDict(d) == DOMAIN d = {}

\* `not span.get('labels')`: missing, None or empty list
NoLabels(d) == ~HasKey(d, "labels") \/ d.labels = << >>

\* text[start:end]
Slice(t, start, end) == SubSeq(t, start + 1, IF end < Len(t) THEN end ELSE Len(t))

\* insertion of x behind every element whose start is <= x.start
RECURSIVE InsertByStart(_, _)
InsertByStart(sorted, x) ==
    IF sorted = << >> THEN <<x>>
    ELSE IF Head(sorted).start <= x.start
         THEN <<Head(sorted)>> \o InsertByStart(Tail(sorted), x)
         ELSE <<x>> \o sorted

\* the list left in the caller's order
SortedByStart_Unsorted(l) == l

\* sorted(spans, key=itemgetter('start')): stable, ascending by start
RECURSIVE SortedByStart(_)
SortedByStart(l) ==
    IF l = << >> THEN << >>
    ELSE InsertByStart(SortedByStart(SubSeq(l, 1, Len(l) - 1)), l[Len(l)])

\* the guard of the span-aware branch
SpansUsable(l) ==
    /\ l # << >>
    /\ \A i \in 1..Len(l) : HasKey(l[i], "start") /\ HasKey(l[i], "end")

\* the cursor of the sweep
Cursor(sp, s, ss, se, p) ==
    [spans |-> sp, span |-> s, span_start |-> ss, span_end |-> se, prefix |-> p]

\* the advance step without the reset of prefix
RECURSIVE AdvanceSpans_KeepPrefix(_, _)
AdvanceSpans_KeepPrefix(c, tstart) ==
    IF c.spans = << >> THEN c
    ELSE LET s  == Head(c.spans)
             c2 == Cursor(Tail(c.spans), s, s.start, s.end - 1, c.prefix)
         IN IF tstart <= c2.span_end THEN c2
            ELSE AdvanceSpans_KeepPrefix(c2, tstart)

\* `while spans:` pop the next span until one ends at or after the token start
RECURSIVE AdvanceSpans(_, _)
AdvanceSpans(c, tstart) ==
    IF c.spans = << >> THEN c
    ELSE LET s  == Head(c.spans)
             c2 == Cursor(Tail(c.spans), s, s.start, s.end - 1, "B-")
         IN IF tstart <= c2.span_end THEN c2 ELSE AdvanceSpans(c2, tstart)

\* an advance that also leaves a span without labels behind
AfterAdvance_SkipUnlabelled(c, tstart) ==
    IF tstart > c.span_end \/ NoLabels(c.span) THEN AdvanceSpans(c, tstart) ELSE c

\* `if token_start_ind > span_end:` advance, else keep the cursor
AfterAdvance(c, tstart) ==
    IF tstart > c.span_end THEN AdvanceSpans(c, tstart) ELSE c

\* the overlap test made against the token's last offset
Tagged_SymmetricOverlap(c, tstart, tend) ==
    IF IsFalsyDict(c.span) \/ tend < c.span_start \/ NoLabels(c.span) THEN FALSE
    ELSE IF c.span_start <= tend /\ c.span_end >= tend THEN TRUE
    ELSE FALSE

\* the three-way tag decision; TRUE when the token gets prefix + labels[0]
Tagged(c, tstart, tend) ==
    IF IsFalsyDict(c.span) \/ tend < c.span_start \/ NoLabels(c.span) THEN FALSE
    ELSE IF c.span_start <= tend /\ c.span_end >= tstart THEN TRUE
    ELSE FALSE

\* the tag built from the last label of the span
TagOf_LastLabel(c, tstart, tend) ==
    IF Tagged(c, tstart, tend)
    THEN <<c.prefix, c.span.labels[Len(c.span.labels)]>> ELSE <<"O">>

OTag == <<"O">>
TagOf(c, tstart, tend) ==
    IF Tagged(c, tstart, tend) THEN <<c.prefix, c.span.labels[1]>> ELSE OTag

\* ---------------------------------------------------------------- actions
Unset == << >>

ConfigIdle ==
    /\ doc = << >> /\ cpc = "idle"
    /\ inputs = << >> /\ outputs = << >> /\ labels = << >>
    /\ schema = << >> /\ owner = << >>

Init ==
    /\ ConfigIdle
    /\ text \in Texts
    /\ arg_spans \in SpanLists
    /\ token_index_tuples \in TokenSpanLists
    /\ tokens_and_idx = [i \in 1..Len(token_index_tuples) |->
            <<Slice(text, token_index_tuples[i][1], token_index_tuples[i][2]),
              token_index_tuples[i][1]>>]
    /\ pc = "call"
    /\ spans = Unset /\ span = Unset
    /\ span_start = 0 /\ span_end = 0 /\ prefix = ""
    /\ n = 0 /\ token_start = 0 /\ token_end = 0
    /\ tokens = Unset /\ tags = Unset /\ cur = << >>

\* lines 72-83: the guard holds; sort, pop the first span, start the sweep
StartSweep ==
    /\ pc = "call"
    /\ SpansUsable(arg_spans)
    /\ LET sorted == SortedByStart(arg_spans) IN
         /\ span' = Head(sorted)
         /\ spans' = Tail(sorted)
         /\ span_start' = Head(sorted).start
         /\ span_end' = Head(sorted).end - 1
    /\ prefix' = "B-"
    /\ tokens' = << >> /\ tags' = << >>
    /\ pc' = "loop"
    /\ UNCHANGED <<text, arg_spans, token_index_tuples, tokens_and_idx, n,
                   token_start, token_end, cur, config_vars>>

\* the iteration with `prefix = 'I-'` run for every token
SweepToken_AlwaysInside ==
    /\ pc = "loop"
    /\ n < Len(tokens_and_idx)
    /\ LET token  == tokens_and_idx[n + 1][1]
           tstart == tokens_and_idx[n + 1][2]
           tend   == tstart + Len(token) - 1
           c      == AfterAdvance(Cursor(spans, span, span_start, span_end, prefix),
                                  tstart)
       IN /\ tokens' = Append(tokens, token)
          /\ token_start' = tstart
          /\ token_end' = tend
          /\ spans' = c.spans
          /\ span' = c.span
          /\ span_start' = c.span_start
          /\ span_end' = c.span_end
          /\ tags' = Append(tags, TagOf(c, tstart, tend))
          /\ prefix' = "I-"
          /\ cur' = Append(cur, Len(arg_spans) - Len(c.spans))
    /\ n' = n + 1
    /\ UNCHANGED <<text, arg_spans, token_index_tuples, tokens_and_idx, pc,
                   config_vars>>

\* lines 84-112: one iteration of `for token, token_start in tokens_and_idx`
SweepToken ==
    /\ pc = "loop"
    /\ n < Len(tokens_and_idx)
    /\ LET token  == tokens_and_idx[n + 1][1]
           tstart == tokens_and_idx[n + 1][2]
           tend   == tstart + Len(token) - 1
           c      == AfterAdvance(Cursor(spans, span, span_start, span_end, prefix),
                                  tstart)
           hit    == Tagged(c, tstart, tend)
       IN /\ tokens' = Append(tokens, token)
          /\ token_start' = tstart
          /\ token_end' = tend
          /\ spans' = c.spans
          /\ span' = c.span
          /\ span_start' = c.span_start
          /\ span_end' = c.span_end
          /\ tags' = Append(tags, TagOf(c, tstart, tend))
          /\ prefix' = IF hit THEN "I-" ELSE c.prefix
          /\ cur' = Append(cur, Len(arg_spans) - Len(c.spans))
    /\ n' = n + 1
    /\ UNCHANGED <<text, arg_spans, token_index_tuples, tokens_and_idx, pc,
                   config_vars>>

\* the fallback with one "O" per span instead of one per token
Fallback_TagPerSpan ==
    /\ pc = "call"
    /\ ~SpansUsable(arg_spans)
    /\ tokens' = [i \in 1..Len(tokens_and_idx) |-> tokens_and_idx[i][1]]
    /\ tags' = [i \in 1..Len(arg_spans) |-> OTag]
    /\ pc' = "done"
    /\ UNCHANGED <<text, arg_spans, token_index_tuples, tokens_and_idx, spans, span,
                   span_start, span_end, prefix, n, token_start, token_end, cur,
                   config_vars>>

\* lines 113-115: no usable spans; every token is tagged "O"
Fallback ==
    /\ pc = "call"
    /\ ~SpansUsable(arg_spans)
    /\ tokens' = [i \in 1..Len(tokens_and_idx) |-> tokens_and_idx[i][1]]
    /\ tags' = [i \in 1..Len(tokens_and_idx) |-> OTag]
    /\ pc' = "done"
    /\ UNCHANGED <<text, arg_spans, token_index_tuples, tokens_and_idx, spans, span,
                   span_start, span_end, prefix, n, token_start, token_end, cur,
                   config_vars>>

\* line 117: the loop is exhausted; return tokens, tags
Return ==
    /\ pc = "loop"
    /\ n = Len(tokens_and_idx)
    /\ pc' = "done"
    /\ UNCHANGED <<text, arg_spans, token_index_tuples, tokens_and_idx, spans, span,
                   span_start, span_end, prefix, n, token_start, token_end, tokens,
                   tags, cur, config_vars>>

Next == StartSweep \/ SweepToken \/ Fallback \/ Return

Spec == Init /\ [][Next]_vars

\* ================================================================ parse_config
_LABEL_TAGS == {"Label", "Choice"}
_NOT_CONTROL_TAGS == {"Filter"}

\* Strings that the code takes apart are sequences of characters.  A missing
\* attribute (attrib.get(...) is None) and an empty one are both << >>: the
\* code only tests them for truth.
None == << >>

\* ---- Python dicts: insertion-ordered sequences of <<key, value>>
DictHas(d, k) == \E i \in 1..Len(d) : d[i][1] = k

DictGet(d, k) ==
    IF DictHas(d, k) THEN d[CHOOSE i \in 1..Len(d) : d[i][1] = k][2] ELSE None

\* an assignment that moves an existing key behind the others
DictPut_MoveToEnd(d, k, v) ==
    LET keep == {i \in 1..Len(d) : d[i][1] # k}
        rest == [q \in 1..Cardinality(keep) |->
                    d[CHOOSE i \in keep : Cardinality({j \in keep : j <= i}) = q]]
    IN Append(rest, <<k, v>>)

\* d[k] = v: a new key goes last, an existing key keeps its position
DictPut(d, k, v) ==
    IF DictHas(d, k)
    THEN [i \in 1..Len(d) |-> IF d[i][1] = k THEN <<k, v>> ELSE d[i]]
    ELSE Append(d, <<k, v>>)

\* list(d)
DictKeys(d) == [i \in 1..Len(d) |-> d[i][1]]

\* ---- the documents: nodes in document order, each with its parent's
\* position (0 for the root).  The nodes: a wrapper; two output tags, one of
\* them with a value and a conditional; a Filter and two object tags, of
\* which two share the name t and one has the name of output tag c; label
\* tags for the values x (twice, with different attributes) and y, and one
\* with neither alias nor value.
NodeTemplates ==
    {[tag |-> "View", attrib |-> << >>],
     [tag |-> "Choices",
      attrib |-> <<(<<"name", <<"c">> >>), (<<"toName", <<"t", ",", "c">> >>)>>],
     [tag |-> "Labels",
      attrib |-> <<(<<"name", <<"d">> >>), (<<"toName", <<"u">> >>),
                   (<<"value", <<"$", "v">> >>),
                   (<<"perRegion", <<"t", "r", "u", "e">> >>),
                   (<<"whenLabelValue", <<"x">> >>)>>],
     [tag |-> "Filter",
      attrib |-> <<(<<"name", <<"t">> >>), (<<"toName", <<"c">> >>),
                   (<<"value", <<"$", "f">> >>)>>],
     [tag |-> "Text",
      attrib |-> <<(<<"name", <<"t">> >>), (<<"value", <<"$", "$", "x">> >>)>>],
     [tag |-> "Image",
      attrib |-> <<(<<"name", <<"c">> >>), (<<"value", <<"y">> >>)>>],
     [tag |-> "Choice", attrib |-> <<(<<"value", <<"x">> >>)>>],
     [tag |-> "Choice",
      attrib |-> <<(<<"alias", <<"x">> >>), (<<"value", <<"y">> >>)>>],
     [tag |-> "Choice", attrib |-> <<(<<"value", <<"y">> >>)>>],
     [tag |-> "Label", attrib |-> <<(<<"alias", << >> >>)>>]}

\* the positions at which the next node of a document order can hang: the
\* last node or one of its ancestors
RECURSIVE PathToRoot(_, _)
PathToRoot(d, i) == IF i = 0 THEN {} ELSE {i} \cup PathToRoot(d, d[i].parent)

ParentChoices(d) == IF d = << >> THEN {0} ELSE PathToRoot(d, Len(d))

\* ---- helpers of parse_config
\* tag.attrib.get(key)
Attr(node, key) == DictGet(node.attrib, key)

Truthy(v) == v # None

\* s.split(',')
RECURSIVE Split(_, _)
Split(str, sep) ==
    IF \A i \in 1..Len(str) : str[i] # sep THEN <<str>>
    ELSE LET i == CHOOSE i \in 1..Len(str) :
                     str[i] = sep /\ \A j \in 1..(i - 1) : str[j] # sep
         IN <<SubSeq(str, 1, i - 1)>> \o Split(SubSeq(str, i + 1, Len(str)), sep)

\* only one leading character removed
LStrip_Once(str, ch) ==
    IF str # << >> /\ Head(str) = ch THEN Tail(str) ELSE str

\* s.lstrip('$')
RECURSIVE LStrip(_, _)
LStrip(str, ch) ==
    IF str # << >> /\ Head(str) = ch THEN LStrip(Tail(str), ch) ELSE str

_is_input_tag(tag) == Truthy(Attr(tag, "name")) /\ Truthy(Attr(tag, "value"))

_is_output_tag(tag) ==
    /\ Truthy(Attr(tag, "name"))
    /\ Truthy(Attr(tag, "toName"))
    /\ tag.tag \notin _NOT_CONTROL_TAGS

\* only the direct parent is looked at
_get_parent_output_tag_name_direct(d, parent, outs) ==
    IF parent = 0 THEN None
    ELSE IF DictHas(outs, Attr(d[parent], "name")) THEN Attr(d[parent], "name")
    ELSE None

\* walk up from position `parent` until a node whose name is a key of outs
RECURSIVE _get_parent_output_tag_name(_, _, _)
_get_parent_output_tag_name(d, parent, outs) ==
    IF parent = 0 THEN None
    ELSE IF DictHas(outs, Attr(d[parent], "name")) THEN Attr(d[parent], "name")
    ELSE _get_parent_output_tag_name(d, d[parent].parent, outs)

\* lines 272-285
Conditionals(tag) ==
    IF Attr(tag, "perRegion") = <<"t", "r", "u", "e">>
    THEN IF Truthy(Attr(tag, "whenTagName"))
         THEN <<(<<"type", "tag">>), (<<"name", Attr(tag, "whenTagName")>>)>>
         ELSE IF Truthy(Attr(tag, "whenLabelValue"))
         THEN <<(<<"type", "label">>), (<<"name", Attr(tag, "whenLabelValue")>>)>>
         ELSE IF Truthy(Attr(tag, "whenChoiceValue"))
         THEN <<(<<"type", "choice">>), (<<"name", Attr(tag, "whenChoiceValue")>>)>>
         ELSE << >>
    ELSE << >>

\* lines 270-287
TagInfo(tag) ==
    LET base == [type |-> tag.tag, to_name |-> Split(Attr(tag, "toName"), ",")]
    IN IF Conditionals(tag) # << >>
       THEN base @@ [conditionals |-> Conditionals(tag)]
       ELSE base

\* lines 290-293
InputInfo(tag) == [type |-> tag.tag, value |-> LStrip(Attr(tag, "value"), "$")]

\* tag.attrib.get('alias') or tag.attrib.get('value')
ActualValue(tag) ==
    IF Truthy(Attr(tag, "alias")) THEN Attr(tag, "alias") ELSE Attr(tag, "value")

\* labels[parent_name][actual_value] = dict(tag.attrib)
LabelsPut(ls, parent_name, actual_value, attrs) ==
    DictPut(ls, parent_name,
            DictPut(DictGet(ls, parent_name), actual_value, attrs))

\* lines 309-316: the descriptors of the to_name entries found in inputs
RECURSIVE LinkedInputs(_, _)
LinkedInputs(to_name, ins) ==
    IF to_name = << >> THEN << >>
    ELSE (IF DictHas(ins, Head(to_name))
          THEN <<DictGet(ins, Head(to_name))>> ELSE << >>)
         \o LinkedInputs(Tail(to_name), ins)

\* lines 307-318 for one output tag
Completed(output_tag, tag_info, ins, ls) ==
    tag_info @@ [inputs |-> LinkedInputs(tag_info.to_name, ins),
                 labels |-> DictKeys(DictGet(ls, output_tag)),
                 labels_attrs |-> DictGet(ls, output_tag)]

\* ---- actions of parse_config
TaggerIdle ==
    /\ text = << >> /\ arg_spans = << >> /\ token_index_tuples = << >>
    /\ tokens_and_idx = << >> /\ pc = "idle"
    /\ spans = << >> /\ span = << >>
    /\ span_start = 0 /\ span_end = 0 /\ prefix = ""
    /\ n = 0 /\ token_start = 0 /\ token_end = 0
    /\ tokens = << >> /\ tags = << >> /\ cur = << >>

ConfigInit ==
    /\ TaggerIdle
    /\ doc = << >> /\ cpc = "call"
    /\ inputs = << >> /\ outputs = << >> /\ labels = << >>
    /\ schema = << >> /\ owner = << >>

\* lines 238-239: `if not config_string: return {}`
EmptyConfig ==
    /\ cpc = "call"
    /\ schema' = << >>
    /\ cpc' = "done"
    /\ UNCHANGED <<doc, inputs, outputs, labels, owner, tagger_vars>>

\* lines 268-306: the body of `for tag in xml_tree.iter()` for the next node
VisitTag ==
    /\ cpc \in {"call", "iter"}
    /\ Len(doc) < MaxNodes
    /\ \E t \in NodeTemplates, p \in ParentChoices(doc) :
         LET tag  == [tag |-> t.tag, attrib |-> t.attrib, parent |-> p]
             outs == IF _is_output_tag(tag)
                     THEN DictPut(outputs, Attr(tag, "name"), TagInfo(tag))
                     ELSE outputs
             parent_name == IF tag.tag \in _LABEL_TAGS
                            THEN _get_parent_output_tag_name(doc, p, outs)
                            ELSE None
         IN /\ doc' = Append(doc, tag)
            /\ outputs' = outs
            /\ inputs' = IF ~_is_output_tag(tag) /\ _is_input_tag(tag)
                         THEN DictPut(inputs, Attr(tag, "name"), InputInfo(tag))
                         ELSE inputs
            /\ labels' = IF parent_name # None /\ Truthy(ActualValue(tag))
                         THEN LabelsPut(labels, parent_name, ActualValue(tag),
                                        tag.attrib)
                         ELSE labels
            /\ owner' = Append(owner, parent_name)
    /\ cpc' = "iter"
    /\ UNCHANGED <<schema, tagger_vars>>

\* lines 307-319: the iterator is exhausted; link inputs and labels, return
LinkAndReturn ==
    /\ cpc = "iter"
    /\ outputs' = [i \in 1..Len(outputs) |->
                     <<outputs[i][1],
                       Completed(outputs[i][1], outputs[i][2], inputs, labels)>>]
    /\ schema' = outputs'
    /\ cpc' = "done"
    /\ UNCHANGED <<doc, inputs, labels, owner, tagger_vars>>

ConfigNext == EmptyConfig \/ VisitTag \/ LinkAndReturn

ConfigSpec == ConfigInit /\ [][ConfigNext]_vars

\* ---------------------------------------------------------------- properties
\* offsets of the i-th token as the tokenizer reports them
TokStart(i) == token_index_tuples[i][1]
TokLast(i) == token_index_tuples[i][1] + Len(tokens_and_idx[i][1]) - 1
TokText(i) == SubSeq(text, token_index_tuples[i][1] + 1, token_index_tuples[i][2])

\* the call's span list is non-empty and every span has 'start' and 'end'
AllBounded ==
    /\ Len(arg_spans) > 0
    /\ \A i \in 1..Len(arg_spans) :
          "start" \in DOMAIN arg_spans[i] /\ "end" \in DOMAIN arg_spans[i]

Labelled(sp) == "labels" \in DOMAIN sp /\ Len(sp.labels) > 0

\* span sp covers the offsets [ts, te] under the code's boundary rule
Covers(sp, ts, te) == sp.start <= te /\ sp.end - 1 >= ts

IsBI(t) == Len(t) = 2 /\ t[1] \in {"B-", "I-"}

\* the span list in the order the sweep consumes it
SweepOrder == SortedByStart(arg_spans)

\* C1: with an empty span list, or a span lacking 'start' or 'end', the
\* result is the tokenizer's token texts in order with every tag "O".
C1_FallbackAllO ==
    (pc = "done" /\ ~AllBounded) =>
        /\ Len(tokens) = Len(token_index_tuples)
        /\ Len(tags) = Len(token_index_tuples)
        /\ \A i \in 1..Len(token_index_tuples) :
              tokens[i] = TokText(i) /\ tags[i] = <<"O">>

\* a labelled, bounded span covers a token, another span lacks its start
C1_Witness ==
    /\ pc = "done"
    /\ Len(arg_spans) = 2
    /\ \E i, j \in 1..2 :
          /\ "start" \notin DOMAIN arg_spans[i]
          /\ DOMAIN arg_spans[j] = {"start", "end", "labels"}
          /\ Labelled(arg_spans[j])
          /\ \E k \in 1..Len(token_index_tuples) :
                Covers(arg_spans[j], TokStart(k), TokLast(k))
    /\ Len(tags) >= 2

\* C2: every state before the return satisfies the guard of a step (the
\* call or the next loop iteration), each iteration adds one token and one
\* tag, and the result has one token text and one tag per tokenizer token,
\* each tag "O" or "B-"/"I-" followed by the first label of some input span.
C2_OneTagPerToken ==
    /\ pc \in {"call", "loop", "done"}
    /\ pc = "loop" =>
        /\ n <= Len(token_index_tuples)
        /\ Len(tokens) = n /\ Len(tags) = n
    /\ pc = "done" =>
        /\ Len(tokens) = Len(token_index_tuples)
        /\ Len(tags) = Len(token_index_tuples)
        /\ \A i \in 1..Len(token_index_tuples) :
              /\ tokens[i] = TokText(i)
              /\ \/ tags[i] = <<"O">>
                 \/ /\ IsBI(tags[i])
                    /\ \E j \in 1..Len(arg_spans) :
                          /\ Labelled(arg_spans[j])
                          /\ tags[i][2] = arg_spans[j].labels[1]

\* more spans than tokens, a two-label span tags a token
C2_Witness ==
    /\ pc = "done"
    /\ AllBounded
    /\ Len(arg_spans) > Len(token_index_tuples)
    /\ \E i \in 1..Len(tags) : tags[i] = <<"B-", "B">>
    /\ \E j \in 1..Len(arg_spans) : ~Labelled(arg_spans[j])

\* C3: against the span current after the advance step, when it has labels,
\* the token is tagged prefix + labels[0] iff start <= token_end and
\* end - 1 >= token_start, else "O".
C3_BoundaryRule ==
    (pc \in {"loop", "done"} /\ AllBounded /\ n > 0 /\ Labelled(span)) =>
        IF span.start <= TokLast(n) /\ span.end - 1 >= TokStart(n)
        THEN IsBI(tags[n]) /\ tags[n][2] = span.labels[1]
        ELSE tags[n] = <<"O">>

\* a span whose last offset is the first offset of a longer token tags it
C3_Witness ==
    /\ pc = "loop" /\ n > 0
    /\ Labelled(span)
    /\ span.start < span.end - 1
    /\ span.end - 1 = TokStart(n)
    /\ TokLast(n) > TokStart(n)
    /\ IsBI(tags[n])

\* C4: under one current span the first tagged token gets "B-" and only
\* the later ones "I-".
C4_SpanRestartsAtB ==
    (pc \in {"loop", "done"} /\ AllBounded) =>
        \A i \in 1..Len(tags) :
            IsBI(tags[i]) =>
                (tags[i][1] = "B-" <=>
                    \A j \in 1..(i - 1) : ~(cur[j] = cur[i] /\ IsBI(tags[j])))

\* two adjacent spans with the same label, tagged one after the other
C4_Witness ==
    /\ pc = "done" /\ AllBounded
    /\ Len(tags) = 3
    /\ tags = <<(<<"B-", "A">>), (<<"I-", "A">>), (<<"B-", "A">>)>>
    /\ cur[2] # cur[3]
    /\ SweepOrder[cur[2]].end = SweepOrder[cur[3]].start

\* C5: a current span without labels that has not ended before the token
\* start keeps the cursor, and the token is tagged "O".
C5_NoLabelSpanKeepsCursor ==
    (pc \in {"loop", "done"} /\ AllBounded /\ n > 0) =>
        LET before == IF n = 1 THEN 1 ELSE cur[n - 1]
            sp == SweepOrder[before]
        IN (~Labelled(sp) /\ TokStart(n) <= sp.end - 1) =>
               (tags[n] = <<"O">> /\ cur[n] = before /\ span = sp)

\* the token is also covered by a later span that has labels
C5_Witness ==
    /\ pc = "loop" /\ n > 0 /\ AllBounded
    /\ ~Labelled(span)
    /\ Covers(span, TokStart(n), TokLast(n))
    /\ spans # << >>
    /\ Labelled(Head(spans))
    /\ Covers(Head(spans), TokStart(n), TokLast(n))
    /\ tags[n] = <<"O">>

\* C9: when every span has labels, a token is tagged "O" iff no input span
\* covers it.
C9_Coverage ==
    (pc \in {"loop", "done"} /\ AllBounded
       /\ \A j \in 1..Len(arg_spans) : Labelled(arg_spans[j])) =>
        \A i \in 1..Len(tags) :
            (tags[i] = <<"O">>) <=>
                ~\E j \in 1..Len(arg_spans) :
                     Covers(arg_spans[j], TokStart(i), TokLast(i))

\* the covering span is passed unsorted, after one that starts later, and an
\* earlier span was discarded by the advance step
C9_Witness ==
    /\ pc = "done" /\ AllBounded
    /\ \A j \in 1..Len(arg_spans) : Labelled(arg_spans[j])
    /\ Len(arg_spans) = 2
    /\ arg_spans[1].start > arg_spans[2].start
    /\ Len(tags) >= 2
    /\ IsBI(tags[1])
    /\ IsBI(tags[Len(tags)])
    /\ cur[Len(tags)] = 2
    /\ \E i \in 1..Len(tags) : tags[i] = <<"O">>

\* C10: the first tag is not "I-", and an "I-" tag follows a "B-" or "I-" tag
\* with the same label.
C10_BIOWellFormed ==
    (pc \in {"loop", "done"}) =>
        \A i \in 1..Len(tags) :
            tags[i][1] = "I-" =>
                /\ i > 1
                /\ IsBI(tags[i - 1])
                /\ tags[i - 1][2] = tags[i][2]

\* a run B-, I- under one span, then a span with another label
C10_Witness ==
    /\ pc = "done"
    /\ tags = <<(<<"B-", "A">>), (<<"I-", "A">>), (<<"B-", "B">>)>>

\* ---- parse_config
SetMax(S) == CHOOSE x \in S : \A y \in S : y <= x
SetMin(S) == CHOOSE x \in S : \A y \in S : x <= y

Nodes == 1..Len(doc)
NodeAttr(i, key) ==
    LET a == doc[i].attrib
        S == {x \in 1..Len(a) : a[x][1] = key}
    IN IF S = {} THEN << >> ELSE a[CHOOSE x \in S : TRUE][2]
NodeName(i) == NodeAttr(i, "name")

\* a recorded output tag: has name and toName, kind not Filter
IsOutputNode(i) ==
    NodeName(i) # << >> /\ NodeAttr(i, "toName") # << >> /\ doc[i].tag # "Filter"

IsLabelNode(i) == doc[i].tag \in {"Label", "Choice"}

\* alias if present and non-empty, else value
LabelValue(i) ==
    IF NodeAttr(i, "alias") # << >> THEN NodeAttr(i, "alias") ELSE NodeAttr(i, "value")

Ancestors(i) == PathToRoot(doc, doc[i].parent)

\* the nearest enclosing node that is itself an output tag, 0 if none
NearestOutputAncestor(i) ==
    LET S == {j \in Ancestors(i) : IsOutputNode(j)}
    IN IF S = {} THEN 0 ELSE SetMax(S)

\* the nearest enclosing node whose name is that of an output tag at or
\* before position i, 0 if none
NearestNamedAncestor(i) ==
    LET S == {j \in Ancestors(i) :
                 \E k \in 1..i : IsOutputNode(k) /\ NodeName(k) = NodeName(j)}
    IN IF S = {} THEN 0 ELSE SetMax(S)

\* node i is recorded under the name of node a, or nowhere when a = 0
RecordedUnder(i, a) ==
    IF a = 0 THEN owner[i] = << >>
    ELSE /\ owner[i] = NodeName(a)
         /\ \E e \in 1..Len(labels) :
               /\ labels[e][1] = NodeName(a)
               /\ \E f \in 1..Len(labels[e][2]) : labels[e][2][f][1] = LabelValue(i)

\* C6 as stated: a Label/Choice node with an alias or value is recorded under
\* the nearest enclosing node that is itself an output tag, and under none
\* when it has no enclosing output tag.
C6_OwnerIsNearestOutputTag ==
    cpc = "done" =>
        \A i \in Nodes :
            (IsLabelNode(i) /\ LabelValue(i) # << >>) =>
                RecordedUnder(i, NearestOutputAncestor(i))

\* C6 amended: in the returned state, a Label/Choice node with a non-empty
\* alias or value is recorded under the name of the nearest enclosing node
\* whose name is the name of an output tag recorded so far, whether or not
\* that node is an output tag itself, and under none when there is no such
\* node.
C6_OwnerIsNearestNamedAncestor ==
    cpc = "done" =>
        \A i \in Nodes :
            (IsLabelNode(i) /\ LabelValue(i) # << >>) =>
                RecordedUnder(i, NearestNamedAncestor(i))

\* an output tag, two wrappers without attributes, then the Choice
C6_Witness ==
    /\ cpc = "done"
    /\ Len(doc) = 4
    /\ IsOutputNode(1)
    /\ doc[2].parent = 1 /\ doc[2].attrib = << >>
    /\ doc[3].parent = 2 /\ doc[3].attrib = << >>
    /\ doc[4].parent = 3 /\ IsLabelNode(4) /\ LabelValue(4) # << >>
    /\ owner[4] = NodeName(1)

\* the nodes recorded under the output tag name T, and their values
OwnedBy(T) ==
    {i \in Nodes : IsLabelNode(i) /\ owner[i] = T /\ LabelValue(i) # << >>}
FirstOf(T, v) == SetMin({i \in OwnedBy(T) : LabelValue(i) = v})
LastOf(T, v) == SetMax({i \in OwnedBy(T) : LabelValue(i) = v})

\* C7: labels of an output tag holds each owned label value once, in the
\* order of first occurrence; labels_attrs holds the attributes of the last
\* occurrence; a node with neither alias nor value is not inserted.
C7_LabelOrder ==
    cpc = "done" =>
        \A e \in 1..Len(schema) :
            LET T == schema[e][1]
                ls == schema[e][2].labels
                la == schema[e][2].labels_attrs
            IN /\ {ls[q] : q \in 1..Len(ls)} = {LabelValue(i) : i \in OwnedBy(T)}
               /\ \A q, r \in 1..Len(ls) :
                     q < r => FirstOf(T, ls[q]) < FirstOf(T, ls[r])
               /\ Len(la) = Len(ls)
               /\ \A q \in 1..Len(ls) :
                     /\ la[q][1] = ls[q]
                     /\ la[q][2] = doc[LastOf(T, ls[q])].attrib

\* L1, L2, L1 under one output tag, the two L1 nodes with different attributes
C7_Witness ==
    /\ cpc = "done"
    /\ Len(doc) = 4
    /\ IsOutputNode(1)
    /\ owner = <<(<< >>), NodeName(1), NodeName(1), NodeName(1)>>
    /\ LabelValue(2) = LabelValue(4)
    /\ LabelValue(2) # LabelValue(3)
    /\ doc[2].attrib # doc[4].attrib
    /\ schema[1][2].labels = <<LabelValue(2), LabelValue(3)>>
    /\ schema[1][2].labels_attrs[1][2] = doc[4].attrib

\* a node with both a name and a value attribute
HasNameAndValue(i) == NodeName(i) # << >> /\ NodeAttr(i, "value") # << >>

\* the value with its leading "$" characters removed
Stripped(v) ==
    LET k == CHOOSE k \in 0..Len(v) :
                 /\ \A j \in 1..k : v[j] = "$"
                 /\ k = Len(v) \/ v[k + 1] # "$"
    IN SubSeq(v, k + 1, Len(v))

Descriptor(i) == [type |-> doc[i].tag, value |-> Stripped(NodeAttr(i, "value"))]

InputsEntry(nm) ==
    IF \E e \in 1..Len(inputs) : inputs[e][1] = nm
    THEN inputs[CHOOSE e \in 1..Len(inputs) : inputs[e][1] = nm][2]
    ELSE << >>

\* seq is the sequence of D(to_name[p]) over the positions p, in order, at
\* which Declared(to_name[p]) holds
IsLinked(seq, to_name, Declared(_), D(_)) ==
    LET R == {p \in 1..Len(to_name) : Declared(to_name[p])}
    IN /\ Len(seq) = Cardinality(R)
       /\ \A p \in R : seq[Cardinality({r \in R : r <= p})] = D(to_name[p])

\* C8 as stated: every node with a name and a value is recorded as an input
\* tag, and inputs of an output tag is the sequence, in to_name order, of the
\* descriptors of the to_name entries naming such a node.
C8_EveryNamedValueIsInput ==
    cpc = "done" =>
        /\ \A i \in Nodes :
              HasNameAndValue(i) =>
                  \E j \in Nodes :
                      /\ HasNameAndValue(j) /\ NodeName(j) = NodeName(i)
                      /\ InputsEntry(NodeName(i)) = Descriptor(j)
        /\ \A e \in 1..Len(schema) :
              LET Declared(nm) == \E i \in Nodes : HasNameAndValue(i) /\ NodeName(i) = nm
                  D(nm) == InputsEntry(nm)
              IN IsLinked(schema[e][2].inputs, schema[e][2].to_name, Declared, D)

\* a node recorded as an input tag: name and value, and not an output tag
IsInputNode(i) == HasNameAndValue(i) /\ ~IsOutputNode(i)

\* the input nodes named nm
InputNodes(nm) == {i \in Nodes : IsInputNode(i) /\ NodeName(i) = nm}

\* C8 amended: in the returned state, a node with a non-empty name and value
\* that is not an output tag is recorded as an input tag, the last such node
\* of a name replacing the earlier ones, and nothing else is recorded; inputs
\* of an output tag is the sequence, in to_name order, of the descriptors
\* recorded for the to_name entries naming such a node, wherever it is
\* declared; the other entries are skipped.
C8_InputLinkage ==
    cpc = "done" =>
        \* inputs holds exactly the names of the input nodes, each with the
        \* descriptor of its last node
        /\ \A i \in Nodes :
              IsInputNode(i) => \E e \in 1..Len(inputs) : inputs[e][1] = NodeName(i)
        /\ \A e \in 1..Len(inputs) :
              /\ InputNodes(inputs[e][1]) # {}
              /\ inputs[e][2] = Descriptor(SetMax(InputNodes(inputs[e][1])))
        \* so a to_name entry names an input node iff it is a key of inputs
        /\ \A e \in 1..Len(schema) :
              LET Declared(nm) == \E f \in 1..Len(inputs) : inputs[f][1] = nm
                  D(nm) == InputsEntry(nm)
              IN /\ \E k \in Nodes :
                       /\ IsOutputNode(k)
                       /\ NodeName(k) = schema[e][1]
                       /\ schema[e][2].to_name = Split(NodeAttr(k, "toName"), ",")
                 /\ IsLinked(schema[e][2].inputs, schema[e][2].to_name, Declared, D)

\* to_name names two nodes, only one is declared, and after the output tag
C8_Witness ==
    /\ cpc = "done"
    /\ Len(schema) = 1
    /\ Len(schema[1][2].to_name) = 2
    /\ Len(schema[1][2].inputs) = 1
    /\ \E k, i \in Nodes :
          /\ k < i
          /\ IsOutputNode(k)
          /\ IsInputNode(i)
          /\ NodeName(i) = schema[1][2].to_name[1]
          /\ NodeAttr(i, "value")[1] = "$"
          /\ schema[1][2].inputs[1] = Descriptor(i)

====
